---- MODULE Spec2Model ----
(***************************************************************************)
(* Utf8Reader (src/src/parser.rs) with its Predicate / Pattern /           *)
(* URangeBounds helpers (src/src/parser/predicates.rs).                    *)
(*                                                                         *)
(* Bytes are integers 0..255, a str is a sequence of bytes, a char is its  *)
(* Unicode code point.  Every public method of the reader is one action;   *)
(* the loops and the pull -> fetch -> validate -> rerun recursion of a     *)
(* method are evaluated inside that action by recursive operators over a   *)
(* record of the reader's fields.  A call leaves its arguments, its result *)
(* and the reader it started from in op, ret and pre; Resume, the caller    *)
(* going on to its next call, clears the three.                            *)
(***************************************************************************)
EXTENDS Integers, Sequences, FiniteSets, TLC

VARIABLES
    src,          \* "Borrowed" | "Reader"        (enum Source)
    str,          \* Source::Borrowed(&str): the borrowed text
    rdr,          \* Source::Reader.rdr: the bytes the source has not delivered yet
    buf,          \* Source::Reader.buf
    buf_cap,      \* Source::Reader.buf_cap
    tot_read,     \* Source::Reader.tot_read
    off_read,     \* Source::Reader.off_read
    off_valid,    \* Source::Reader.off_valid
    off_consumed, \* Utf8Reader.off_consumed
    tot_consumed, \* Utf8Reader.tot_consumed
    peeked,       \* Utf8Reader.peeked   (0 is None, n > 0 is Some(n))
    eof,          \* Utf8Reader.eof
    stream,       \* observer: every byte the source holds, in order
    out,          \* observer: the text handed out by the calls so far
    clean,        \* observer: no call has failed so far
    op,           \* observer: the call that has just returned, with its arguments
    ret,          \* observer: what that call returned
    pre,          \* observer: the reader as it was when that call began
    pc            \* the frames of a call taken turn by turn, innermost first
                  \* (empty while no call is under way, and in Spec, where
                  \* every call is one step)

vars == <<src, str, rdr, buf, buf_cap, tot_read, off_read, off_valid,
          off_consumed, tot_consumed, peeked, eof, stream, out, clean, op, ret, pre,
          pc>>

-----------------------------------------------------------------------------
(* Sizes.  INIT_CAP (32 KiB in the source) and THRES_ARRANGE (8 KiB) are    *)
(* scaled down so that a handful of bytes fills, compacts and doubles the   *)
(* buffer: INIT_CAP is the length of the longest character of Chars, and    *)
(* THRES_ARRANGE < INIT_CAP as in the source.                               *)

INIT_CAP == 3
THRES_ARRANGE == 1

MaxLen == 4        \* longest byte stream a source holds
MaxChunk == 3      \* most bytes a source delivers in one read
MaxN == 3          \* largest n given to consume(n) and pull_at_least(n)

None == -1         \* Option::None of a char / of an index
Uninit == 256      \* a cell of the allocation that was never written: no byte
                   \* value, so that any use of it as text is ill-formed
IoFail == 0        \* an entry of an I/O plan: the read fails

Min(a, b) == IF a <= b THEN a ELSE b
Max(a, b) == IF a >= b THEN a ELSE b

\* `let t = v` of the source: v is evaluated once and F reads the value
With(v, F(_)) == CHOOSE r \in {F(t) : t \in {v}} : TRUE

Drop(s, n) == SubSeq(s, n + 1, Len(s))
Take(s, n) == SubSeq(s, 1, n)
Slice(s, from, to) == SubSeq(s, from + 1, to)          \* s[from..to]
StartsWith(s, p) == Len(p) <= Len(s) /\ Take(s, Len(p)) = p

-----------------------------------------------------------------------------
(* UTF-8: simdutf8::compat::from_utf8, char::len_utf8, str::chars,          *)
(* str::is_char_boundary.                                                   *)

IsCont(b) == b >= 128 /\ b <= 191

\* UTF8_CHAR_WIDTH: 0 for a byte that cannot start a sequence
Utf8Width(b) ==
    IF b < 128 THEN 1
    ELSE IF b >= 194 /\ b <= 223 THEN 2
    ELSE IF b >= 224 /\ b <= 239 THEN 3
    ELSE IF b >= 240 /\ b <= 244 THEN 4
    ELSE 0

\* the range the second byte of a sequence led by b must lie in
SecondOk(b, c) ==
    IF b = 224 THEN c >= 160 /\ c <= 191
    ELSE IF b = 237 THEN c >= 128 /\ c <= 159
    ELSE IF b = 240 THEN c >= 144 /\ c <= 191
    ELSE IF b = 244 THEN c >= 128 /\ c <= 143
    ELSE IsCont(c)

\* The sequence starting at bytes[i]: [len > 0] a complete character,
\* [len = 0, error_len = 0] cut short by the end of the input,
\* [len = 0, error_len = n > 0] n bytes that can never be valid.
SeqAt(bytes, i) ==
    LET b == bytes[i]
        w == Utf8Width(b)
        have == Len(bytes) - i + 1
    IN  IF w = 0 THEN [len |-> 0, error_len |-> 1]
        ELSE IF w = 1 THEN [len |-> 1, error_len |-> 0]
        ELSE IF have < 2 THEN [len |-> 0, error_len |-> 0]
        ELSE IF ~SecondOk(b, bytes[i + 1]) THEN [len |-> 0, error_len |-> 1]
        ELSE IF w = 2 THEN [len |-> 2, error_len |-> 0]
        ELSE IF have < 3 THEN [len |-> 0, error_len |-> 0]
        ELSE IF ~IsCont(bytes[i + 2]) THEN [len |-> 0, error_len |-> 2]
        ELSE IF w = 3 THEN [len |-> 3, error_len |-> 0]
        ELSE IF have < 4 THEN [len |-> 0, error_len |-> 0]
        ELSE IF ~IsCont(bytes[i + 3]) THEN [len |-> 0, error_len |-> 3]
        ELSE [len |-> 4, error_len |-> 0]

RECURSIVE ScanFrom(_, _)
ScanFrom(bytes, i) ==
    IF i > Len(bytes) THEN [ok |-> TRUE, valid_up_to |-> Len(bytes), error_len |-> None]
    ELSE With(SeqAt(bytes, i), LAMBDA q :
             IF q.len > 0 THEN With(i + q.len, LAMBDA j : ScanFrom(bytes, j))
             ELSE [ok |-> FALSE, valid_up_to |-> i - 1,
                   error_len |-> IF q.error_len = 0 THEN None ELSE q.error_len])

\* from_utf8(bytes): Ok, or Err(Utf8Error { valid_up_to, error_len })
from_utf8(bytes) == With(bytes, LAMBDA b : ScanFrom(b, 1))

len_utf8(ch) ==
    IF ch < 128 THEN 1 ELSE IF ch < 2048 THEN 2 ELSE IF ch < 65536 THEN 3 ELSE 4

\* char::encode_utf8
Encode(ch) ==
    CASE len_utf8(ch) = 1 -> <<ch>>
      [] len_utf8(ch) = 2 -> <<192 + (ch \div 64), 128 + (ch % 64)>>
      [] len_utf8(ch) = 3 -> <<224 + (ch \div 4096), 128 + ((ch \div 64) % 64), 128 + (ch % 64)>>
      [] OTHER -> <<240 + (ch \div 262144), 128 + ((ch \div 4096) % 64),
                    128 + ((ch \div 64) % 64), 128 + (ch % 64)>>

\* the character a str begins with: str::chars().next(); None for ""
\* (next_code_point: the width comes from the first byte, the payload bits
\* from the bytes that follow)
FirstChar(text) ==
    IF text = <<>> THEN None
    ELSE LET b == text[1]
             at(i) == IF i <= Len(text) THEN text[i] % 64 ELSE 0
         IN  IF b < 128 THEN b
             ELSE IF b < 224 THEN (b % 32) * 64 + at(2)
             ELSE IF b < 240 THEN (b % 16) * 4096 + at(2) * 64 + at(3)
             ELSE (b % 8) * 262144 + at(2) * 4096 + at(3) * 64 + at(4)

\* str::chars of a well-formed text, as a sequence of code points
RECURSIVE chars(_)
chars(text) ==
    IF text = <<>> THEN <<>>
    ELSE With(FirstChar(text), LAMBDA ch : <<ch>> \o chars(Drop(text, len_utf8(ch))))

\* str::is_char_boundary
is_char_boundary(text, n) ==
    IF n = 0 THEN TRUE
    ELSE IF n >= Len(text) THEN n = Len(text)
    ELSE ~IsCont(text[n + 1])

-----------------------------------------------------------------------------
(* The reader as a record: the fields of Utf8Reader and Source::Reader,     *)
(* the source (rdr), and what one call carries along: the source's          *)
(* behaviour during the call (io), the reads it issued (reads; tight: one   *)
(* was given an empty region; zero: one returned 0), its Result, and, for   *)
(* a call taken turn by turn, the parity of the turns it took (turn).       *)

\* The source's behaviour during one call: io[1] is what the first read does,
\* io[2] the second, the last entry every later one.  An entry k > 0 delivers
\* up to k bytes, IoFail makes the read return Err.
IoPlans == {<<k>> : k \in 1..MaxChunk} \cup {<<IoFail>>, <<1, IoFail>>}

Self == [src |-> src, str |-> str, rdr |-> rdr, buf |-> buf, buf_cap |-> buf_cap,
         tot_read |-> tot_read, off_read |-> off_read, off_valid |-> off_valid,
         off_consumed |-> off_consumed, tot_consumed |-> tot_consumed,
         peeked |-> peeked, eof |-> eof,
         io |-> <<IoFail>>, reads |-> 0, tight |-> FALSE, zero |-> FALSE,
         err |-> "Ok", at |-> None, flag |-> FALSE,
         ch |-> None, span |-> <<>>, rej |-> FALSE, hit |-> FALSE, disc |-> <<>>, idx |-> 0,
         times |-> 0, turn |-> 0]

Call(io) == [Self EXCEPT !.io = io]

Fail(s, kind, index) == [s EXCEPT !.err = kind, !.at = index]

\* Utf8Reader::content
content(s) ==
    IF s.src = "Borrowed" THEN Drop(s.str, s.off_consumed)
    ELSE Slice(s.buf, s.off_consumed, s.off_valid)

\* Utf8Reader::content_behind
content_behind(s, from, to) ==
    IF s.src = "Borrowed" THEN Slice(s.str, from, to) ELSE Slice(s.buf, from, to)

\* Utf8Reader::consumed
consumed(s) == s.tot_consumed + s.off_consumed

\* Utf8Reader::exhausted
exhausted(s) ==
    IF s.src = "Borrowed" THEN s.off_consumed = Len(s.str)
    ELSE s.eof /\ s.off_consumed = s.off_valid

\* validate, were it to count the bytes of an incomplete sequence as valid
validate_incomplete_as_valid(s) ==
    With(from_utf8(Slice(s.buf, s.off_valid, s.off_read)), LAMBDA e :
        IF ~e.ok /\ e.error_len # None
        THEN Fail(s, "InvalidData", s.tot_read + e.error_len)
        ELSE [s EXCEPT !.off_valid = s.off_read])

\* Utf8Reader::validate; err = "Retry" stands for Ok(false)
validate(s) ==
    With(from_utf8(Slice(s.buf, s.off_valid, s.off_read)), LAMBDA e :
        IF ~e.ok
        THEN IF e.error_len # None
             THEN Fail(s, "InvalidData", s.tot_read + e.error_len)
             ELSE [s EXCEPT !.err = "Retry"]
        ELSE [s EXCEPT !.off_valid = s.off_read])

\* rdr.read(&mut buf[off_read..buf_cap]): the source fills a prefix of the
\* region it is given; it returns 0 when it has nothing left or the region
\* is empty.
SourceRead(s) ==
    LET k == Head(s.io)
        room == Max(0, s.buf_cap - s.off_read)
        len == Min(k, Min(room, Len(s.rdr)))
        t == [s EXCEPT !.io = IF Len(s.io) > 1 THEN Tail(s.io) ELSE s.io,
                       !.reads = s.reads + 1,
                       !.tight = s.tight \/ room = 0,
                       !.zero = s.zero \/ (k # IoFail /\ len = 0)]
    IN  IF k = IoFail THEN [s |-> Fail(t, "Io", None), len |-> 0]
        ELSE [s |-> [t EXCEPT !.rdr = Drop(s.rdr, len),
                              !.buf = [i \in 1..Len(s.buf) |->
                                         IF i > s.off_read /\ i <= s.off_read + len
                                         THEN s.rdr[i - s.off_read] ELSE s.buf[i]]],
              len |-> len]

\* the compaction, were it to forget `self.tot_consumed += self.off_consumed`
Arrange_without_total(s) ==
    [s EXCEPT !.buf = [i \in 1..Len(s.buf) |->
                         IF i <= s.off_read - s.off_consumed
                         THEN s.buf[i + s.off_consumed] ELSE s.buf[i]],
              !.off_valid = s.off_valid - s.off_consumed,
              !.off_read = s.off_read - s.off_consumed,
              !.off_consumed = 0]

\* the compaction, were it to lack the ptr::copy
Arrange_without_copy(s) ==
    [s EXCEPT !.tot_consumed = s.tot_consumed + s.off_consumed,
              !.off_valid = s.off_valid - s.off_consumed,
              !.off_read = s.off_read - s.off_consumed,
              !.off_consumed = 0]

\* the compaction of pull: ptr::copy and the offsets that follow it
Arrange(s) ==
    [s EXCEPT !.buf = [i \in 1..Len(s.buf) |->
                         IF i <= s.off_read - s.off_consumed
                         THEN s.buf[i + s.off_consumed] ELSE s.buf[i]],
              !.tot_consumed = s.tot_consumed + s.off_consumed,
              !.off_valid = s.off_valid - s.off_consumed,
              !.off_read = s.off_read - s.off_consumed,
              !.off_consumed = 0]

\* the growth, were the new allocation to lack the copy of the bytes read so far
Extend_without_copy(s) ==
    LET cap == s.buf_cap * 2
    IN  [s EXCEPT !.buf_cap = cap,
                  !.buf = IF cap > Len(s.buf) THEN [i \in 1..cap |-> Uninit] ELSE s.buf]

\* the growth of pull_more: double buf_cap, reallocate when the allocation is short
Extend(s) ==
    LET cap == s.buf_cap * 2
    IN  [s EXCEPT !.buf_cap = cap,
                  !.buf = IF cap > Len(s.buf)
                          THEN [i \in 1..cap |-> IF i <= s.off_read THEN s.buf[i] ELSE Uninit]
                          ELSE s.buf]

RECURSIVE pull(_), pull_more(_), fetch(_, _)

\* fetch, were a read of 0 to end it with Ok whatever is pending
fetch_quiet_at_eof(s, rerun) ==
    With(SourceRead(s), LAMBDA r :
        IF r.s.err # "Ok" THEN r.s
        ELSE IF r.len # 0
        THEN With(validate([r.s EXCEPT !.eof = FALSE,
                                       !.tot_read = r.s.tot_read + r.len,
                                       !.off_read = r.s.off_read + r.len]), LAMBDA v :
                 IF v.err = "Retry"
                 THEN With([v EXCEPT !.err = "Ok"], LAMBDA w :
                          IF rerun = "pull" THEN pull(w) ELSE pull_more(w))
                 ELSE v)
        ELSE [r.s EXCEPT !.eof = TRUE])

\* fetch, were a failed read to set the EOF flag
fetch_failure_as_eof(s, rerun) ==
    With(SourceRead(s), LAMBDA r :
        IF r.s.err # "Ok" THEN [r.s EXCEPT !.eof = TRUE]
        ELSE IF r.len # 0
        THEN With(validate([r.s EXCEPT !.eof = FALSE,
                                       !.tot_read = r.s.tot_read + r.len,
                                       !.off_read = r.s.off_read + r.len]), LAMBDA v :
                 IF v.err = "Retry"
                 THEN With([v EXCEPT !.err = "Ok"], LAMBDA w :
                          IF rerun = "pull" THEN pull(w) ELSE pull_more(w))
                 ELSE v)
        ELSE IF r.s.off_valid = r.s.off_read THEN [r.s EXCEPT !.eof = TRUE]
        ELSE Fail([r.s EXCEPT !.eof = TRUE], "UnexpectedEof", None))

\* Utf8Reader::fetch
fetch(s, rerun) ==
    With(SourceRead(s), LAMBDA r :
        IF r.s.err # "Ok" THEN r.s
        ELSE IF r.len # 0
        THEN With(validate([r.s EXCEPT !.eof = FALSE,
                                       !.tot_read = r.s.tot_read + r.len,
                                       !.off_read = r.s.off_read + r.len]), LAMBDA v :
                 IF v.err = "Retry"
                 THEN With([v EXCEPT !.err = "Ok"], LAMBDA w :
                          IF rerun = "pull" THEN pull(w) ELSE pull_more(w))
                 ELSE v)
        ELSE IF r.s.off_valid = r.s.off_read THEN [r.s EXCEPT !.eof = TRUE]
        ELSE Fail([r.s EXCEPT !.eof = TRUE], "UnexpectedEof", None))

\* pull, were it to lack its first early return (off_read > INIT_CAP + off_consumed)
pull_without_first_return(s) ==
    IF s.src = "Borrowed" THEN s
    ELSE With(IF s.off_read > INIT_CAP - THRES_ARRANGE THEN Arrange(s) ELSE s, LAMBDA t :
         With([t EXCEPT !.buf_cap = INIT_CAP], LAMBDA u :
             IF u.off_read >= INIT_CAP THEN u ELSE fetch(u, "pull")))

\* pull, were it to leave buf_cap as pull_more made it
pull_keeping_cap(s) ==
    IF s.src = "Borrowed" THEN s
    ELSE IF s.off_read > INIT_CAP + s.off_consumed THEN s
    ELSE With(IF s.off_read > INIT_CAP - THRES_ARRANGE THEN Arrange(s) ELSE s, LAMBDA u :
             IF u.off_read >= INIT_CAP THEN u ELSE fetch(u, "pull"))

\* Utf8Reader::pull
pull(s) ==
    IF s.src = "Borrowed" THEN s
    ELSE IF s.off_read > INIT_CAP + s.off_consumed THEN s
    ELSE With(IF s.off_read > INIT_CAP - THRES_ARRANGE THEN Arrange(s) ELSE s, LAMBDA t :
         With([t EXCEPT !.buf_cap = INIT_CAP], LAMBDA u :
             IF u.off_read >= INIT_CAP THEN u ELSE fetch(u, "pull")))

\* pull_more, were it to compact as pull does before it grows
pull_more_compacting(s) ==
    IF s.src = "Borrowed" THEN s
    ELSE With(Arrange(s), LAMBDA a :
         With(IF a.off_read > (a.buf_cap * 7) \div 8 THEN Extend(a) ELSE a, LAMBDA t :
             fetch(t, "pull_more")))

\* pull_more, were it to double buf_cap only once off_read has passed it
pull_more_extending_late(s) ==
    IF s.src = "Borrowed" THEN s
    ELSE With(IF s.off_read > s.buf_cap THEN Extend(s) ELSE s, LAMBDA t :
             fetch(t, "pull_more"))

\* Utf8Reader::pull_more
pull_more(s) ==
    IF s.src = "Borrowed" THEN s
    ELSE With(IF s.off_read > (s.buf_cap * 7) \div 8 THEN Extend(s) ELSE s, LAMBDA t :
             fetch(t, "pull_more"))

\* Utf8Reader::pull_at_least; flag is the bool of Ok(bool)
RECURSIVE pull_at_least(_, _)
pull_at_least(s, n) ==
    IF s.src = "Borrowed" THEN [s EXCEPT !.flag = Len(content(s)) >= n]
    ELSE IF ~(s.off_consumed + n > s.off_valid) THEN [s EXCEPT !.flag = TRUE]
    ELSE IF s.eof THEN [s EXCEPT !.flag = FALSE]
    ELSE With(pull_more(s), LAMBDA t :
             IF t.err # "Ok" THEN t ELSE pull_at_least(t, n))
-----------------------------------------------------------------------------
(* Predicate, URangeBounds and Pattern (src/src/parser/predicates.rs).      *)

\* Predicate::predicate for a closure (the set it accepts), a char, a
\* [char; N], a Range<char> and a RangeInclusive<char>
predicate(p, ch) ==
    CASE p.kind = "fn" -> ch \in p.set
      [] p.kind = "char" -> ch = p.c
      [] p.kind = "chars" -> \E i \in 1..Len(p.cs) : p.cs[i] = ch
      [] p.kind = "range" -> p.lo <= ch /\ ch < p.hi
      [] p.kind = "range_inclusive" -> p.lo <= ch /\ ch <= p.hi

\* URangeBounds::contains for usize, .., a.., a..b, ..b, a..=b, ..=b
contains(u, times) ==
    CASE u.shape = "usize" -> times = u.n
      [] u.shape = "full" -> TRUE
      [] u.shape = "from" -> u.lo <= times
      [] u.shape = "range" -> u.lo <= times /\ times < u.hi
      [] u.shape = "to" -> times < u.hi
      [] u.shape = "inclusive" -> u.lo <= times /\ times <= u.hi
      [] u.shape = "to_inclusive" -> times <= u.hi

\* want_more, were a..b and ..b to compare times itself with the end
want_more_up_to_end(u, times) ==
    CASE u.shape = "usize" -> times < u.n
      [] u.shape = "full" -> TRUE
      [] u.shape = "from" -> TRUE
      [] u.shape = "range" -> times < u.hi
      [] u.shape = "to" -> times < u.hi
      [] u.shape = "inclusive" -> times < u.hi
      [] u.shape = "to_inclusive" -> times < u.hi

\* URangeBounds::want_more
want_more(u, times) ==
    CASE u.shape = "usize" -> times < u.n
      [] u.shape = "full" -> TRUE
      [] u.shape = "from" -> TRUE
      [] u.shape = "range" -> times + 1 < u.hi
      [] u.shape = "to" -> times + 1 < u.hi
      [] u.shape = "inclusive" -> times < u.hi
      [] u.shape = "to_inclusive" -> times < u.hi

\* utf8_first_byte, were it to give the last byte of the encoding
utf8_first_byte_last(ch) ==
    IF len_utf8(ch) = 1 THEN ch ELSE 128 + (ch % 64)

\* utf8_first_byte
utf8_first_byte(ch) ==
    CASE len_utf8(ch) = 1 -> ch
      [] len_utf8(ch) = 2 -> ((ch \div 64) % 32) + 192
      [] len_utf8(ch) = 3 -> ((ch \div 4096) % 16) + 224
      [] OTHER -> ((ch \div 262144) % 8) + 240

\* A pattern is [kind, items]: "char" and "str" hold one item, "chars",
\* "strs" and "tokens" (a token_sets! enum) a sequence of them, in
\* declaration order.  Word(p, i) is the text of candidate i.
Word(p, i) == IF p.kind \in {"char", "chars"} THEN Encode(p.items[i]) ELSE p.items[i]

FirstByte(p, i) ==
    IF p.kind \in {"char", "chars"} THEN utf8_first_byte(p.items[i])
    ELSE IF p.items[i] = <<>> THEN None ELSE p.items[i][1]

WordLen(p, i) ==
    IF p.kind \in {"char", "chars"} THEN len_utf8(p.items[i]) ELSE Len(p.items[i])

\* Iterator::max, were it to give the least
MaxOf_least(S) == IF S = {} THEN None
                  ELSE LET x == CHOOSE y \in S : \A z \in S : y <= z IN x

MaxOf(S) == IF S = {} THEN None
            ELSE LET x == CHOOSE y \in S : \A z \in S : z <= y IN x

\* Pattern::indicate: None, or the length to fetch
indicate(p, begin) ==
    IF p.kind \in {"char", "str"}
    THEN IF FirstByte(p, 1) = begin THEN WordLen(p, 1) ELSE None
    ELSE IF p.kind = "tokens"
    THEN LET m == MaxOf({WordLen(p, i) : i \in {j \in 1..Len(p.items) : FirstByte(p, j) = begin}}
                        \cup {0})
         IN  IF m # 0 THEN m ELSE None
    ELSE MaxOf({WordLen(p, i) : i \in {j \in 1..Len(p.items) : FirstByte(p, j) = begin}})

\* Pattern::matches: [len, idx], idx the first candidate the text starts with (0: None)
pmatches(p, text) ==
    LET found == {i \in 1..Len(p.items) : StartsWith(text, Word(p, i))}
    IN  IF found = {} THEN [len |-> 0, idx |-> 0]
        ELSE LET i == CHOOSE j \in found : \A k \in found : j <= k
             IN  [len |-> WordLen(p, i), idx |-> i]

-----------------------------------------------------------------------------
(* The scanning primitives of Utf8Reader.                                   *)

Advance(s, n) == [s EXCEPT !.off_consumed = s.off_consumed + n]

\* consume, were it to test n against the length of the content only
consume_by_length(s, n) ==
    IF n > Len(content(s)) THEN Fail(s, "Panic", None)
    ELSE Advance(s, n)

\* consume, were it to clear the peek state
consume_clearing_peeked(s, n) ==
    IF ~is_char_boundary(content(s), n) THEN Fail(s, "Panic", None)
    ELSE [s EXCEPT !.off_consumed = s.off_consumed + n, !.peeked = 0]

\* Utf8Reader::consume; err = "Panic" is the panic!
consume(s, n) ==
    IF ~is_char_boundary(content(s), n) THEN Fail(s, "Panic", None)
    ELSE Advance(s, n)

\* Utf8Reader::next
next(s) ==
    With(pull(s), LAMBDA t :
        IF t.err # "Ok" THEN t
        ELSE With(FirstChar(content(t)), LAMBDA ch :
                 IF ch = None THEN t
                 ELSE [t EXCEPT !.off_consumed = t.off_consumed + len_utf8(ch), !.ch = ch]))

\* peek, were it to commit the character as next does
peek_committing(s) ==
    With(pull(s), LAMBDA t :
        IF t.err # "Ok" THEN t
        ELSE With(FirstChar(content(t)), LAMBDA ch :
                 IF ch = None THEN t
                 ELSE [t EXCEPT !.off_consumed = t.off_consumed + len_utf8(ch), !.ch = ch]))

\* Utf8Reader::peek
peek(s) ==
    With(pull(s), LAMBDA t :
        IF t.err # "Ok" THEN t ELSE [t EXCEPT !.ch = FirstChar(content(t))])

\* Utf8Reader::peeking
peeking(s) ==
    With(IF s.peeked # 0
         THEN [s EXCEPT !.off_consumed = s.off_consumed + s.peeked, !.peeked = 0]
         ELSE s, LAMBDA t :
    With(IF content(t) = <<>> THEN pull_more(t) ELSE t, LAMBDA u :
        IF u.err # "Ok" THEN u
        ELSE With(FirstChar(content(u)), LAMBDA ch :
                 IF ch = None THEN [u EXCEPT !.ch = None]
                 ELSE [u EXCEPT !.peeked = len_utf8(ch), !.ch = ch])))

\* Utf8Reader::take_once
take_once(s, p) ==
    With(peek(s), LAMBDA t :
        IF t.err # "Ok" THEN t
        ELSE IF t.ch = None THEN t
        ELSE IF ~predicate(p, t.ch) THEN [t EXCEPT !.ch = None]
        ELSE Advance(t, len_utf8(t.ch)))

\* the loop of take_times: ch is what `break` carries out of it
RECURSIVE TimesLoop(_, _, _, _)
\* the loop of take_times, were it to go on without asking range.want_more
TimesLoop_without_want_more(s, p, u, times) ==
    With(peeking(s), LAMBDA t :
        IF t.err # "Ok" THEN t
        ELSE IF t.ch = None THEN [t EXCEPT !.times = times]
        ELSE IF ~predicate(p, t.ch) THEN [t EXCEPT !.times = times]
        ELSE TimesLoop(t, p, u, times + 1))

TimesLoop(s, p, u, times) ==
    With(peeking(s), LAMBDA t :
        IF t.err # "Ok" THEN t
        ELSE IF t.ch = None THEN [t EXCEPT !.times = times]
        ELSE IF ~(want_more(u, times) /\ predicate(p, t.ch)) THEN [t EXCEPT !.times = times]
        ELSE TimesLoop(t, p, u, times + 1))

\* take_times, were it to lack `self.off_consumed = start` on rejection
take_times_without_restore(s, p, u) ==
    With(TimesLoop([s EXCEPT !.peeked = 0], p, u, 0), LAMBDA t :
        IF t.err # "Ok" THEN t
        ELSE IF contains(u, t.times)
        THEN [t EXCEPT !.span = content_behind(t, s.off_consumed, t.off_consumed)]
        ELSE [t EXCEPT !.rej = TRUE,
                       !.span = content_behind(t, s.off_consumed, t.off_consumed)])

\* take_times, were it to lack `self.peeked = None`
take_times_without_reset(s, p, u) ==
    With(TimesLoop(s, p, u, 0), LAMBDA t :
        IF t.err # "Ok" THEN t
        ELSE IF contains(u, t.times)
        THEN [t EXCEPT !.span = content_behind(t, s.off_consumed, t.off_consumed)]
        ELSE [t EXCEPT !.off_consumed = s.off_consumed, !.rej = TRUE,
                       !.span = content_behind(t, s.off_consumed, t.off_consumed)])

\* Utf8Reader::take_times; rej tells Err(&str) from Ok(&str)
take_times(s, p, u) ==
    With(TimesLoop([s EXCEPT !.peeked = 0], p, u, 0), LAMBDA t :
        IF t.err # "Ok" THEN t
        ELSE IF contains(u, t.times)
        THEN [t EXCEPT !.span = content_behind(t, s.off_consumed, t.off_consumed)]
        ELSE [t EXCEPT !.off_consumed = s.off_consumed, !.rej = TRUE,
                       !.span = content_behind(t, s.off_consumed, t.off_consumed)])

\* the loop of take_while
RECURSIVE WhileLoop(_, _)
WhileLoop(s, p) ==
    With(peeking(s), LAMBDA t :
        IF t.err # "Ok" THEN t
        ELSE IF t.ch = None THEN t
        ELSE IF ~predicate(p, t.ch) THEN t
        ELSE WhileLoop(t, p))

\* take_while, were it to lack `self.peeked = None`
take_while_without_reset(s, p) ==
    With(WhileLoop(s, p), LAMBDA t :
        IF t.err # "Ok" THEN t
        ELSE [t EXCEPT !.span = content_behind(t, s.off_consumed, t.off_consumed)])

\* Utf8Reader::take_while
take_while(s, p) ==
    With(WhileLoop([s EXCEPT !.peeked = 0], p), LAMBDA t :
        IF t.err # "Ok" THEN t
        ELSE [t EXCEPT !.span = content_behind(t, s.off_consumed, t.off_consumed)])

\* that part of matches, were it to advance by the length indicate gave
MatchAt_by_indicated(t, p, len) ==
    With(pull_at_least(t, len), LAMBDA u :
        IF u.err # "Ok" THEN u
        ELSE With(pmatches(p, content(u)), LAMBDA m :
                 IF m.idx = 0 THEN u
                 ELSE [u EXCEPT !.off_consumed = u.off_consumed + len,
                                !.hit = TRUE, !.idx = m.idx, !.disc = Word(p, m.idx)]))

\* the part of matches that follows a byte some candidate may start with
MatchAt(t, p, len) ==
    With(pull_at_least(t, len), LAMBDA u :
        IF u.err # "Ok" THEN u
        ELSE With(pmatches(p, content(u)), LAMBDA m :
                 IF m.idx = 0 THEN u
                 ELSE [u EXCEPT !.off_consumed = u.off_consumed + m.len,
                                !.hit = TRUE, !.idx = m.idx, !.disc = Word(p, m.idx)]))

\* Utf8Reader::matches
matches(s, p) ==
    With(pull(s), LAMBDA t :
        IF t.err # "Ok" THEN t
        ELSE IF content(t) = <<>> THEN t
        ELSE With(indicate(p, content(t)[1]), LAMBDA len :
                 IF len = None THEN t ELSE MatchAt(t, p, len)))

\* content().as_bytes().iter().enumerate().find_map(indicate): the first
\* index whose byte some candidate may start with (None: no such byte)
FindIndicated(p, c) ==
    LET at == {i \in 1..Len(c) : indicate(p, c[i]) # None}
    IN  IF at = {} THEN [idx |-> None, len |-> None]
        ELSE With(CHOOSE j \in at : \A k \in at : j <= k, LAMBDA i :
                 [idx |-> i - 1, len |-> indicate(p, c[i])])

\* the loops of until: one turn of the inner loop, or of 'outer
RECURSIVE UntilLoop(_, _, _)
\* the loops of until, were they to lack `self.pull_at_least(len)?`
UntilLoop_without_fetch(s, p, start) ==
    With(FindIndicated(p, content(s)), LAMBDA f :
        IF f.idx = None
        THEN With(Advance(s, Len(content(s))), LAMBDA t :
                 IF t.eof
                 THEN [t EXCEPT !.off_consumed = start, !.rej = TRUE,
                                !.span = content_behind(t, start, t.off_consumed)]
                 ELSE With(pull_more(t), LAMBDA u :
                          IF u.err # "Ok" THEN u ELSE UntilLoop(u, p, start)))
        ELSE With(Advance(s, f.idx), LAMBDA t :
                 With(pmatches(p, content(t)), LAMBDA m :
                     IF m.idx # 0
                     THEN [t EXCEPT !.off_consumed = t.off_consumed + m.len,
                                    !.span = content_behind(t, start, t.off_consumed),
                                    !.hit = TRUE, !.idx = m.idx, !.disc = Word(p, m.idx)]
                     ELSE With(Advance(t, 1), LAMBDA v : UntilLoop(v, p, start)))))

UntilLoop(s, p, start) ==
    With(FindIndicated(p, content(s)), LAMBDA f :
        IF f.idx = None
        THEN With(Advance(s, Len(content(s))), LAMBDA t :
                 IF t.eof
                 THEN [t EXCEPT !.off_consumed = start, !.rej = TRUE,
                                !.span = content_behind(t, start, t.off_consumed)]
                 ELSE With(pull_more(t), LAMBDA u :
                          IF u.err # "Ok" THEN u ELSE UntilLoop(u, p, start)))
        ELSE With(pull_at_least(Advance(s, f.idx), f.len), LAMBDA t :
                 IF t.err # "Ok" THEN t
                 ELSE With(pmatches(p, content(t)), LAMBDA m :
                          IF m.idx # 0
                          THEN [t EXCEPT !.off_consumed = t.off_consumed + m.len,
                                         !.span = content_behind(t, start, t.off_consumed),
                                         !.hit = TRUE, !.idx = m.idx, !.disc = Word(p, m.idx)]
                          ELSE With(Advance(t, 1), LAMBDA v : UntilLoop(v, p, start)))))

\* Utf8Reader::until
until(s, p) == UntilLoop(s, p, s.off_consumed)
-----------------------------------------------------------------------------
(* The inputs: byte streams, and the arguments the calls are given.         *)

\* 'a', U+00E9 (2 bytes: C3 A9), U+20AC (3 bytes: E2 82 AC).  The patterns
\* also name U+00E8 (C3 A8), which no stream holds: it shares its first byte
\* with U+00E9, so a candidate can fail after its first byte matched.
Chars == {97, 233, 8364}

\* ill-formed pieces: a lone continuation byte, the first byte of a 2-byte
\* sequence, the first two bytes of a 4-byte sequence, the first byte of a
\* 2-byte sequence with 'a' in place of its second
BadUnits == {<<169>>, <<195>>, <<240, 159>>, <<195, 97>>}

RECURSIVE Texts(_)
\* the well-formed texts of at most n bytes
Texts(n) ==
    {<<>>} \cup UNION {{Encode(c) \o t : t \in Texts(n - len_utf8(c))} :
                        c \in {d \in Chars : len_utf8(d) <= n}}

\* well-formed text, or well-formed text that ends in an ill-formed piece
Streams ==
    Texts(MaxLen) \cup
    {s \in {v \o b : v \in Texts(MaxLen - 1), b \in BadUnits} : Len(s) <= MaxLen}

Preds == << [kind |-> "char", c |-> 97],
            [kind |-> "fn", set |-> {233, 8364}],
            [kind |-> "range_inclusive", lo |-> 97, hi |-> 233] >>

\* the predicates take_once and take_times are called with
FewPreds == {1, 2}

Ranges == << [shape |-> "usize", n |-> 2],
             [shape |-> "inclusive", lo |-> 2, hi |-> 3],
             [shape |-> "range", lo |-> 0, hi |-> 2] >>

Pats == << [kind |-> "str", items |-> << <<97, 195, 169>> >>],
           [kind |-> "strs", items |-> << <<97>>, <<97, 97>>, <<226, 130, 172>> >>],
           [kind |-> "chars", items |-> <<8364, 232>>],
           [kind |-> "tokens", items |-> << <<195, 169, 97>>, <<195, 169>> >>] >>

-----------------------------------------------------------------------------
(* The state machine.                                                       *)

NoOp == [name |-> "idle", n |-> 0, p |-> 0, u |-> 0, pat |-> 0]

Blank == [src |-> "", str |-> <<>>, rdr |-> <<>>, buf |-> <<>>, buf_cap |-> 0,
          tot_read |-> 0, off_read |-> 0, off_valid |-> 0, off_consumed |-> 0,
          tot_consumed |-> 0, peeked |-> 0, eof |-> FALSE,
          io |-> <<IoFail>>, reads |-> 0, tight |-> FALSE, zero |-> FALSE,
          err |-> "Ok", at |-> None, flag |-> FALSE,
          ch |-> None, span |-> <<>>, rej |-> FALSE, hit |-> FALSE, disc |-> <<>>, idx |-> 0,
          times |-> 0, turn |-> 0]

\* what a call returned, read off the record it ends with
Ret(s) == [tag |-> s.err, at |-> s.at, flag |-> s.flag, ch |-> s.ch, span |-> s.span,
           rej |-> s.rej, hit |-> s.hit, disc |-> s.disc, idx |-> s.idx,
           times |-> s.times, reads |-> s.reads, tight |-> s.tight, zero |-> s.zero,
           turn |-> s.turn]

\* Utf8Reader::from_str / Utf8Reader::from_reader
Init ==
    /\ src \in {"Borrowed", "Reader"}
    /\ stream \in IF src = "Borrowed" THEN Texts(MaxLen) ELSE Streams
    /\ str = IF src = "Borrowed" THEN stream ELSE <<>>
    /\ rdr = IF src = "Borrowed" THEN <<>> ELSE stream
    /\ buf = IF src = "Borrowed" THEN <<>> ELSE [i \in 1..INIT_CAP |-> Uninit]
    /\ buf_cap = IF src = "Borrowed" THEN 0 ELSE INIT_CAP
    /\ tot_read = 0
    /\ off_read = 0
    /\ off_valid = 0
    /\ off_consumed = 0
    /\ tot_consumed = 0
    /\ peeked = 0
    /\ eof = (src = "Borrowed")
    /\ out = <<>>
    /\ clean = TRUE
    /\ op = NoOp
    /\ ret = Ret(Blank)
    /\ pre = Blank
    /\ pc = <<>>

\* the reader after a call that ended in record s and handed out `given`
Install(s, o, given) ==
    /\ pre' = Self
    /\ src' = s.src
    /\ str' = s.str
    /\ rdr' = s.rdr
    /\ buf' = s.buf
    /\ buf_cap' = s.buf_cap
    /\ tot_read' = s.tot_read
    /\ off_read' = s.off_read
    /\ off_valid' = s.off_valid
    /\ off_consumed' = s.off_consumed
    /\ tot_consumed' = s.tot_consumed
    /\ peeked' = s.peeked
    /\ eof' = s.eof
    /\ stream' = stream
    /\ op' = o
    /\ ret' = Ret(s)
    /\ clean' = (clean /\ s.err = "Ok")
    /\ out' = IF clean /\ s.err = "Ok" THEN out \o given ELSE <<>>
    /\ pc' = pc

\* no call is under way: the caller is free to make one
Idle == op.name = "idle"

CharText(ch) == IF ch = None THEN <<>> ELSE Encode(ch)

Pull ==
    Idle /\ \E io \in IoPlans : \E s \in {pull(Call(io))} :
        Install(s, [NoOp EXCEPT !.name = "pull"], <<>>)

PullMore ==
    Idle /\ \E io \in IoPlans : \E s \in {pull_more(Call(io))} :
        Install(s, [NoOp EXCEPT !.name = "pull_more"], <<>>)

PullAtLeast ==
    Idle /\ \E io \in IoPlans, n \in 0..MaxN : \E s \in {pull_at_least(Call(io), n)} :
        Install(s, [NoOp EXCEPT !.name = "pull_at_least", !.n = n], <<>>)

Consume ==
    Idle /\ \E n \in 0..MaxN : \E s \in {consume(Self, n)} :
        Install(s, [NoOp EXCEPT !.name = "consume", !.n = n],
                IF s.err = "Ok" THEN Take(content(Self), n) ELSE <<>>)

NextChar ==
    Idle /\ \E io \in IoPlans : \E s \in {next(Call(io))} :
        Install(s, [NoOp EXCEPT !.name = "next"], CharText(s.ch))

Peek ==
    Idle /\ \E io \in IoPlans : \E s \in {peek(Call(io))} :
        Install(s, [NoOp EXCEPT !.name = "peek"], <<>>)

TakeOnce ==
    Idle /\ \E io \in IoPlans, p \in FewPreds : \E s \in {take_once(Call(io), Preds[p])} :
        Install(s, [NoOp EXCEPT !.name = "take_once", !.p = p], CharText(s.ch))

TakeWhile ==
    Idle /\ \E io \in IoPlans, p \in DOMAIN Preds : \E s \in {take_while(Call(io), Preds[p])} :
        Install(s, [NoOp EXCEPT !.name = "take_while", !.p = p], s.span)

TakeTimes ==
    Idle /\ \E io \in IoPlans, p \in FewPreds, u \in DOMAIN Ranges :
        \E s \in {take_times(Call(io), Preds[p], Ranges[u])} :
            Install(s, [NoOp EXCEPT !.name = "take_times", !.p = p, !.u = u],
                    IF s.rej THEN <<>> ELSE s.span)

Matches ==
    Idle /\ \E io \in IoPlans, i \in DOMAIN Pats : \E s \in {matches(Call(io), Pats[i])} :
        Install(s, [NoOp EXCEPT !.name = "matches", !.pat = i], s.disc)

Until ==
    Idle /\ \E io \in IoPlans, i \in DOMAIN Pats : \E s \in {until(Call(io), Pats[i])} :
        Install(s, [NoOp EXCEPT !.name = "until", !.pat = i],
                IF s.hit THEN s.span \o s.disc ELSE <<>>)

\* the caller goes on: the observers of the finished call are cleared
Resume ==
    /\ ~Idle
    /\ pc = <<>>
    /\ op' = NoOp
    /\ ret' = Ret(Blank)
    /\ pre' = Blank
    /\ UNCHANGED <<src, str, rdr, buf, buf_cap, tot_read, off_read, off_valid,
                   off_consumed, tot_consumed, peeked, eof, stream, out, clean, pc>>

Next ==
    \/ Resume
    \/ Pull
    \/ PullMore
    \/ PullAtLeast
    \/ Consume
    \/ NextChar
    \/ Peek
    \/ TakeOnce
    \/ TakeWhile
    \/ TakeTimes
    \/ Matches
    \/ Until

Spec == Init /\ [][Next]_vars

-----------------------------------------------------------------------------
(* URangeBounds and Pattern on their own: a caller asks a range of any      *)
(* shape about any count, and a pattern of any kind about any first byte    *)
(* and any text.  The reader plays no part; it is the reader of an empty    *)
(* text.  The candidates of a pattern are not empty (an empty word makes    *)
(* token_sets! index past its end).                                         *)
(* The counts are those a scan can reach: a count is at most the number of  *)
(* bytes buffered, so times + 1 stays within usize.                         *)

MaxTimes == 4      \* largest count a range is asked about
MaxEnd == 3        \* largest start or end of a range

\* the seven shapes: n, .., a.., a..b, ..b, a..=b, ..=b
Shapes ==
    {[shape |-> "usize", n |-> k, lo |-> 0, hi |-> 0] : k \in 0..MaxEnd}
    \cup {[shape |-> "full", n |-> 0, lo |-> 0, hi |-> 0]}
    \cup {[shape |-> "from", n |-> 0, lo |-> a, hi |-> 0] : a \in 0..MaxEnd}
    \cup {[shape |-> "range", n |-> 0, lo |-> a, hi |-> b] : a, b \in 0..MaxEnd}
    \cup {[shape |-> "to", n |-> 0, lo |-> 0, hi |-> b] : b \in 0..MaxEnd}
    \cup {[shape |-> "inclusive", n |-> 0, lo |-> a, hi |-> b] : a, b \in 0..MaxEnd}
    \cup {[shape |-> "to_inclusive", n |-> 0, lo |-> 0, hi |-> b] : b \in 0..MaxEnd}

\* Utf8Reader::from_str("")
InitPure ==
    /\ src = "Borrowed"
    /\ stream = <<>>
    /\ str = <<>>
    /\ rdr = <<>>
    /\ buf = <<>>
    /\ buf_cap = 0
    /\ tot_read = 0
    /\ off_read = 0
    /\ off_valid = 0
    /\ off_consumed = 0
    /\ tot_consumed = 0
    /\ peeked = 0
    /\ eof = TRUE
    /\ out = <<>>
    /\ clean = TRUE
    /\ op = NoOp
    /\ ret = Ret(Blank)
    /\ pre = Blank
    /\ pc = <<>>

\* range.want_more(n) and range.contains(n)
AskRange ==
    Idle /\ \E u \in Shapes, n \in 0..MaxTimes :
        /\ op' = [name |-> "want_more", u |-> u, n |-> n]
        /\ ret' = [more |-> want_more(u, n), has |-> contains(u, n)]
        /\ UNCHANGED <<src, str, rdr, buf, buf_cap, tot_read, off_read, off_valid,
                       off_consumed, tot_consumed, peeked, eof, stream, out, clean, pre,
                       pc>>

\* the patterns asked: those of Pats, a char, and candidates that share a
\* first byte in either order of length
MorePats ==
    Pats \o << [kind |-> "char", items |-> <<233>>],
               [kind |-> "chars", items |-> <<232, 8364, 233>>],
               [kind |-> "strs", items |-> << <<195, 169>>, <<97, 97>>, <<195, 169, 97>> >>],
               [kind |-> "tokens", items |-> << <<97>>, <<195, 169>>, <<97, 195, 169>> >>] >>

\* the first bytes asked: those of 'a', U+00E9 / U+00E8, U+20AC, 'b', and a
\* continuation byte
FirstBytes == {97, 195, 226, 98, 169}

\* pattern.indicate(b) and pattern.matches(text)
AskPattern ==
    Idle /\ \E i \in DOMAIN MorePats, b \in FirstBytes, text \in Texts(MaxLen) :
        /\ op' = [name |-> "pattern", pat |-> i, b |-> b, text |-> text]
        /\ ret' = [len |-> indicate(MorePats[i], b), m |-> pmatches(MorePats[i], text)]
        /\ UNCHANGED <<src, str, rdr, buf, buf_cap, tot_read, off_read, off_valid,
                       off_consumed, tot_consumed, peeked, eof, stream, out, clean, pre,
                       pc>>

NextPure ==
    \/ Resume
    \/ AskRange
    \/ AskPattern

SpecPure == InitPure /\ [][NextPure]_vars

-----------------------------------------------------------------------------
(* The calls taken turn by turn.  A call under way is a stack of frames,    *)
(* one for each method entered and not yet left; a step runs the innermost  *)
(* frame up to its next physical read, the next call it makes or the next   *)
(* turn of its loop.  A frame is [f, ph, a, b]: the method, the place in    *)
(* it, and its locals (n of pull_at_least; start and times of the scans;    *)
(* start and the indicated length of until).                                *)

Frame(f, ph, a, b) == [f |-> f, ph |-> ph, a |-> a, b |-> b]

\* what one read of a call taken turn by turn does: up to k bytes, or Err
ReadKinds == (1..MaxChunk) \cup {IoFail}

\* fetch up to its rerun, were a read of 0 to ask for the rerun as well
FetchOnce_rerun_at_eof(s) ==
    With(SourceRead(s), LAMBDA r :
        IF r.s.err # "Ok" THEN r.s
        ELSE IF r.len # 0
        THEN validate([r.s EXCEPT !.eof = FALSE,
                                  !.tot_read = r.s.tot_read + r.len,
                                  !.off_read = r.s.off_read + r.len])
        ELSE IF r.s.off_valid = r.s.off_read THEN [r.s EXCEPT !.eof = TRUE]
        ELSE [r.s EXCEPT !.eof = TRUE, !.err = "Retry"])

\* fetch up to its `rerun(self)`: one read and one validate; err = "Retry"
\* stands for the rerun that is due
FetchOnce(s) ==
    With(SourceRead(s), LAMBDA r :
        IF r.s.err # "Ok" THEN r.s
        ELSE IF r.len # 0
        THEN validate([r.s EXCEPT !.eof = FALSE,
                                  !.tot_read = r.s.tot_read + r.len,
                                  !.off_read = r.s.off_read + r.len])
        ELSE IF r.s.off_valid = r.s.off_read THEN [r.s EXCEPT !.eof = TRUE]
        ELSE Fail([r.s EXCEPT !.eof = TRUE], "UnexpectedEof", None))

\* one pass through pull, up to the return of its fetch
PullTurn(s) ==
    IF s.src = "Borrowed" THEN s
    ELSE IF s.off_read > INIT_CAP + s.off_consumed THEN s
    ELSE With(IF s.off_read > INIT_CAP - THRES_ARRANGE THEN Arrange(s) ELSE s, LAMBDA t :
         With([t EXCEPT !.buf_cap = INIT_CAP], LAMBDA u :
             IF u.off_read >= INIT_CAP THEN u ELSE FetchOnce(u)))

\* one pass through pull_more, up to the return of its fetch
PullMoreTurn(s) ==
    IF s.src = "Borrowed" THEN s
    ELSE With(IF s.off_read > (s.buf_cap * 7) \div 8 THEN Extend(s) ELSE s, LAMBDA t :
             FetchOnce(t))

\* the frames the innermost frame fr is replaced by: none when it returns,
\* itself when it goes round, a callee on top of it when it calls
Leave(s) == [s |-> s, top |-> <<>>]
Stay(s, fr) == [s |-> s, top |-> <<fr>>]
Enter(s, callee, fr) == [s |-> s, top |-> <<callee, fr>>]

\* pull and pull_more: a pass, and another one when fetch asks for the rerun
TurnPull(s, fr) ==
    With(IF fr.f = "pull" THEN PullTurn(s) ELSE PullMoreTurn(s), LAMBDA v :
        IF v.err = "Retry" THEN Stay([v EXCEPT !.err = "Ok"], fr) ELSE Leave(v))

\* one turn of the loop of pull_at_least(n), n = fr.a
TurnPullAtLeast(s, fr) ==
    IF s.src = "Borrowed" THEN Leave([s EXCEPT !.flag = Len(content(s)) >= fr.a])
    ELSE IF ~(s.off_consumed + fr.a > s.off_valid) THEN Leave([s EXCEPT !.flag = TRUE])
    ELSE IF s.eof THEN Leave([s EXCEPT !.flag = FALSE])
    ELSE Enter(s, Frame("pull_more", "enter", 0, 0), fr)

\* next, peek and take_once: the pull, then the character
TurnChar(s, fr) ==
    IF fr.ph = "enter" THEN Enter(s, Frame("pull", "enter", 0, 0), [fr EXCEPT !.ph = "char"])
    ELSE With(FirstChar(content(s)), LAMBDA ch :
             IF ch = None THEN Leave(s)
             ELSE IF fr.f = "peek" THEN Leave([s EXCEPT !.ch = ch])
             ELSE IF fr.f = "take_once" /\ ~predicate(Preds[op.p], ch) THEN Leave(s)
             ELSE Leave([s EXCEPT !.off_consumed = s.off_consumed + len_utf8(ch), !.ch = ch]))

\* what follows the loop of a scan: take_times asks range.contains(times),
\* times = fr.b, and puts the cursor back to start = fr.a when it rejects
AfterLoop(s, fr) ==
    IF fr.f = "take_times" /\ ~contains(Ranges[op.u], fr.b)
    THEN Leave([s EXCEPT !.off_consumed = fr.a, !.rej = TRUE])
    ELSE Leave(s)

\* the second half of peeking, and what the loop of the scan makes of the
\* character
AfterPeeking(s, fr) ==
    With(FirstChar(content(s)), LAMBDA ch :
        IF ch = None THEN AfterLoop(s, fr)
        ELSE With([s EXCEPT !.peeked = len_utf8(ch), !.ch = ch], LAMBDA t :
                 IF fr.f = "take_while"
                 THEN IF predicate(Preds[op.p], ch)
                      THEN Stay(t, [fr EXCEPT !.ph = "peeking"])
                      ELSE AfterLoop(t, fr)
                 ELSE IF want_more(Ranges[op.u], fr.b) /\ predicate(Preds[op.p], ch)
                      THEN Stay(t, [fr EXCEPT !.ph = "peeking", !.b = fr.b + 1])
                      ELSE AfterLoop(t, fr)))

\* take_while and take_times: `self.peeked = None`, then turn after turn of
\* the loop around peeking
TurnScan(s, fr) ==
    IF fr.ph = "enter"
    THEN Stay([s EXCEPT !.peeked = 0], [fr EXCEPT !.ph = "peeking", !.a = s.off_consumed])
    ELSE IF fr.ph = "peeking"
    THEN With(IF s.peeked # 0
              THEN [s EXCEPT !.off_consumed = s.off_consumed + s.peeked, !.peeked = 0]
              ELSE s, LAMBDA t :
             IF content(t) = <<>>
             THEN Enter(t, Frame("pull_more", "enter", 0, 0), [fr EXCEPT !.ph = "pulled"])
             ELSE AfterPeeking(t, fr))
    ELSE AfterPeeking(s, fr)

\* matches: the pull, the test of the first byte, pull_at_least, the match
TurnMatches(s, fr) ==
    IF fr.ph = "enter" THEN Enter(s, Frame("pull", "enter", 0, 0), [fr EXCEPT !.ph = "first"])
    ELSE IF fr.ph = "first"
    THEN IF content(s) = <<>> THEN Leave(s)
         ELSE With(indicate(Pats[op.pat], content(s)[1]), LAMBDA len :
                  IF len = None THEN Leave(s)
                  ELSE Enter(s, Frame("pull_at_least", "enter", len, 0),
                             [fr EXCEPT !.ph = "match"]))
    ELSE With(pmatches(Pats[op.pat], content(s)), LAMBDA m :
             IF m.idx = 0 THEN Leave(s)
             ELSE Leave([s EXCEPT !.off_consumed = s.off_consumed + m.len,
                                  !.hit = TRUE, !.idx = m.idx]))

\* until: one turn of the inner loop, or the rest of a turn of 'outer once
\* pull_at_least is back; start = fr.a
TurnUntil(s, fr) ==
    IF fr.ph = "enter" THEN Stay(s, [fr EXCEPT !.ph = "find", !.a = s.off_consumed])
    ELSE IF fr.ph = "find"
    THEN With(FindIndicated(Pats[op.pat], content(s)), LAMBDA f :
             IF f.idx = None
             THEN With(Advance(s, Len(content(s))), LAMBDA t :
                      IF t.eof
                      THEN Leave([t EXCEPT !.off_consumed = fr.a, !.rej = TRUE,
                                           !.span = content_behind(t, fr.a, t.off_consumed)])
                      ELSE Enter(t, Frame("pull_more", "enter", 0, 0), fr))
             ELSE Enter(Advance(s, f.idx), Frame("pull_at_least", "enter", f.len, 0),
                        [fr EXCEPT !.ph = "match"]))
    ELSE With(pmatches(Pats[op.pat], content(s)), LAMBDA m :
             IF m.idx # 0
             THEN Leave([s EXCEPT !.off_consumed = s.off_consumed + m.len,
                                  !.span = content_behind(s, fr.a, s.off_consumed),
                                  !.hit = TRUE, !.idx = m.idx])
             ELSE Stay(Advance(s, 1), [fr EXCEPT !.ph = "find"]))

\* the innermost frame runs up to its next read, call, turn or return
Turn(s, fr) ==
    CASE fr.f \in {"pull", "pull_more"} -> TurnPull(s, fr)
      [] fr.f = "pull_at_least" -> TurnPullAtLeast(s, fr)
      [] fr.f = "consume" -> Leave(consume(s, fr.a))
      [] fr.f \in {"next", "peek", "take_once"} -> TurnChar(s, fr)
      [] fr.f \in {"take_while", "take_times"} -> TurnScan(s, fr)
      [] fr.f = "matches" -> TurnMatches(s, fr)
      [] fr.f = "until" -> TurnUntil(s, fr)

\* the calls a caller may make, with their arguments
Calls ==
    {[NoOp EXCEPT !.name = f] : f \in {"pull", "pull_more", "next", "peek"}}
    \cup {[NoOp EXCEPT !.name = f, !.n = n] : f \in {"pull_at_least", "consume"}, n \in 0..MaxN}
    \cup {[NoOp EXCEPT !.name = "take_once", !.p = p] : p \in FewPreds}
    \cup {[NoOp EXCEPT !.name = "take_while", !.p = p] : p \in DOMAIN Preds}
    \cup {[NoOp EXCEPT !.name = "take_times", !.p = p, !.u = u] :
              p \in FewPreds, u \in DOMAIN Ranges}
    \cup {[NoOp EXCEPT !.name = f, !.pat = i] : f \in {"matches", "until"}, i \in DOMAIN Pats}

\* the caller makes a call: the method is entered
Begin ==
    /\ Idle /\ pc = <<>>
    /\ \E o \in Calls :
           /\ op' = o
           /\ pc' = <<Frame(o.name, "enter", o.n, 0)>>
    /\ pre' = Self
    /\ ret' = [Ret(Blank) EXCEPT !.tag = "Running"]
    /\ UNCHANGED <<src, str, rdr, buf, buf_cap, tot_read, off_read, off_valid,
                   off_consumed, tot_consumed, peeked, eof, stream, out, clean>>

\* the call under way takes its next turn; a failure (the `?` of every call
\* of a pull, the panic of consume) leaves all its frames at once
Step ==
    /\ pc # <<>>
    /\ \E k \in ReadKinds : \E r \in {Turn([Self EXCEPT !.io = <<k>>], Head(pc))} :
           /\ src' = r.s.src
           /\ str' = r.s.str
           /\ rdr' = r.s.rdr
           /\ buf' = r.s.buf
           /\ buf_cap' = r.s.buf_cap
           /\ tot_read' = r.s.tot_read
           /\ off_read' = r.s.off_read
           /\ off_valid' = r.s.off_valid
           /\ off_consumed' = r.s.off_consumed
           /\ tot_consumed' = r.s.tot_consumed
           /\ peeked' = r.s.peeked
           /\ eof' = r.s.eof
           /\ pc' = IF r.s.err # "Ok" THEN <<>> ELSE r.top \o Tail(pc)
           /\ ret' = [Ret(Blank) EXCEPT
                         !.tag = IF r.s.err # "Ok" THEN r.s.err
                                 ELSE IF r.top \o Tail(pc) = <<>> THEN "Ok" ELSE "Running",
                         !.at = r.s.at,
                         !.flag = r.s.flag,
                         !.rej = r.s.rej,
                         !.hit = r.s.hit,
                         !.span = r.s.span,
                         !.idx = r.s.idx,
                         !.turn = IF r.s.err # "Ok" \/ r.top \o Tail(pc) = <<>>
                                  THEN 0 ELSE 1 - ret.turn]
    /\ UNCHANGED <<stream, out, clean, op, pre>>

NextSteps == Resume \/ Begin \/ Step

\* a call, once made, runs: the thread that made it executes it, and every
\* read of the source returns
SpecSteps == Init /\ [][NextSteps]_vars /\ WF_vars(Step)

-----------------------------------------------------------------------------
(* The properties.  Returned: a call has just returned, op names it, ret    *)
(* is what it returned and pre the reader it started from.                  *)

Returned == op.name # "idle"
RetOk == Returned /\ ret.tag = "Ok"

\* the bytes read from the source and not yet validated
Pending(s) == Slice(s.buf, s.off_valid, s.off_read)

\* the bytes a returned call committed as consumed, read off what it returned
Committed ==
    CASE op.name = "consume" -> op.n
      [] op.name \in {"next", "take_once"} -> IF ret.ch = None THEN 0 ELSE len_utf8(ret.ch)
      [] op.name = "take_while" -> Len(ret.span)
      [] op.name = "take_times" -> IF ret.rej THEN 0 ELSE Len(ret.span)
      [] op.name = "matches" -> Len(ret.disc)
      [] op.name = "until" -> IF ret.hit THEN Len(ret.span) + Len(ret.disc) ELSE 0
      [] OTHER -> 0

\* C1: in a reader built by from_reader, whatever calls were made and whatever
\* the source did, off_consumed <= off_valid <= off_read <= buf_cap.
C1_Offsets ==
    src = "Reader" =>
        /\ off_consumed <= off_valid
        /\ off_valid <= off_read
        /\ off_read <= buf_cap

\* the buffer has grown, text was consumed, and bytes are pending: the four
\* offsets are all different
C1_Witness ==
    /\ src = "Reader"
    /\ 0 < off_consumed /\ off_consumed < off_valid
    /\ off_valid < off_read /\ off_read < buf_cap
    /\ buf_cap > INIT_CAP

\* C2: after every call, content() is well-formed UTF-8 made of whole
\* characters, and it is the text of the stream at the cursor: no byte of a
\* character that has not arrived in full, and no byte that was never read.
C2_ContentValid ==
    /\ from_utf8(content(Self)).ok
    /\ content(Self) = Slice(stream, consumed(Self), consumed(Self) + Len(content(Self)))

\* a 3-byte character arrived in three reads of one byte within one pull: the
\* content, empty before, holds it only now
C2_Witness ==
    /\ src = "Reader" /\ op.name = "pull" /\ RetOk
    /\ ret.reads = 3
    /\ content(pre) = <<>>
    /\ content(Self) = Encode(8364)

\* C3: consumed() after a call is never less than before it, and after a
\* successful call it is greater by exactly the bytes the call committed.
C3_ConsumedMonotone ==
    Returned =>
        /\ consumed(Self) >= consumed(pre)
        /\ RetOk => consumed(Self) = consumed(pre) + Committed

\* a pull compacted the buffer: consumed bytes moved from off_consumed into
\* tot_consumed
C3_Witness ==
    /\ op.name = "pull" /\ RetOk
    /\ tot_consumed > pre.tot_consumed
    /\ off_consumed < pre.off_consumed

\* C4: a rejected take_times or until leaves consumed() and the cursor where
\* they were, and the rejected value is the text that was scanned from there:
\* for take_times the characters it counted, all accepted and too few or too
\* many for the range; for until all the content up to the end of input.
C4_RejectionRestores ==
    (op.name \in {"take_times", "until"} /\ RetOk /\ ret.rej) =>
        /\ consumed(Self) = consumed(pre)
        /\ off_consumed = pre.off_consumed
        /\ tot_consumed = pre.tot_consumed
        /\ StartsWith(content(Self), ret.span)
        /\ ret.span = Slice(stream, consumed(pre), consumed(pre) + Len(ret.span))
        /\ op.name = "take_times" =>
               /\ Len(chars(ret.span)) = ret.times
               /\ \A i \in 1..ret.times : predicate(Preds[op.p], chars(ret.span)[i])
               /\ ~contains(Ranges[op.u], ret.times)
        /\ op.name = "until" => ret.span = content(Self) /\ eof

\* take_times with a range of 2..=3 met one accepted character and then the
\* end of input
C4_Witness ==
    /\ src = "Reader" /\ op.name = "take_times" /\ RetOk /\ ret.rej
    /\ Ranges[op.u].shape = "inclusive"
    /\ ret.times = 1 /\ ret.ch = None
    /\ ret.reads > 0
    /\ Len(ret.span) > 0

C6_NextNoneOnlyAtExhaustion ==
    (op.name = "next" /\ RetOk) =>
        IF ret.ch = None
        THEN exhausted(Self)
        ELSE /\ consumed(Self) = consumed(pre) + len_utf8(ret.ch)
             /\ StartsWith(Drop(stream, consumed(pre)), Encode(ret.ch))

\* the state next() returns Ok(None) in without being exhausted: the stream
\* is well-formed and the source has more of it to deliver, but the buffer of
\* INIT_CAP bytes is full, nothing of it is consumed, and it ends inside a
\* character, so that pull returns without reading and the content is empty
C6_Stuck ==
    /\ op.name = "next" /\ RetOk /\ ret.ch = None
    /\ from_utf8(stream).ok
    /\ rdr # <<>>
    /\ ~exhausted(Self)
    /\ ~eof
    /\ off_read >= INIT_CAP
    /\ off_consumed = off_valid
    /\ off_valid < off_read
    /\ ~ret.zero

\* C7: as long as no call has failed, the pieces of text the calls handed out
\* (characters, spans, pattern literals, the bytes of consume), put together
\* in call order, are the stream up to consumed(); at exhaustion they are
\* the whole stream.
C7_RoundTrip ==
    clean =>
        /\ out = Take(stream, consumed(Self))
        /\ exhausted(Self) => out = stream

\* a stream reader was driven to exhaustion over a stream of MaxLen bytes,
\* compacting its buffer on the way
C7_Witness ==
    /\ src = "Reader" /\ clean
    /\ exhausted(Self)
    /\ Len(stream) = MaxLen
    /\ out = stream
    /\ tot_consumed > 0

\* C8: consume(n) with n on no character boundary of the content (n beyond
\* its end included) panics and changes no field; with n on a boundary it
\* adds n to off_consumed and changes no other field.
C8_ConsumeBoundary ==
    op.name = "consume" =>
        IF op.n <= Len(content(pre)) /\ from_utf8(Take(content(pre), op.n)).ok
        THEN ret.tag = "Ok" /\ Self = [pre EXCEPT !.off_consumed = pre.off_consumed + op.n]
        ELSE ret.tag = "Panic" /\ Self = pre

\* consume(n) was called with n inside a multi-byte character
C8_Witness ==
    /\ op.name = "consume" /\ ret.tag = "Panic"
    /\ 0 < op.n /\ op.n < Len(content(pre))
    /\ src = "Reader"

\* C9: the bytes read are the bytes of the stream, none dropped; and when a
\* read returns 0 at the end of the stream while an incomplete sequence is
\* pending, the call fails with UnexpectedEof, the pending bytes stay
\* buffered behind off_valid, and the content ends before them.
C9_TruncatedAtEof ==
    src = "Reader" =>
        /\ Slice(buf, 0, off_read) = Slice(stream, tot_consumed, tot_consumed + off_read)
        /\ rdr = Drop(stream, tot_consumed + off_read)
        /\ (Returned /\ ret.zero /\ rdr = <<>> /\ off_valid < off_read
              /\ from_utf8(Pending(Self)).error_len = None) =>
               /\ ret.tag = "UnexpectedEof"
               /\ Pending(Self) = Drop(stream, tot_consumed + off_valid)
               /\ Len(content(Self)) = off_valid - off_consumed
               /\ from_utf8(content(Self)).ok

\* the stream ended after 2 bytes of a 4-byte sequence, with an 'a' before
\* them that is still content
C9_Witness ==
    /\ src = "Reader" /\ Returned /\ ret.tag = "UnexpectedEof"
    /\ ret.zero
    /\ Pending(Self) = <<240, 159>>
    /\ content(Self) = <<97>>

\* C10: a successful take_while(p) returns the text of the stream from the
\* cursor on, made of characters p accepts, and has consumed exactly that
\* text; what follows is a character p rejects, returned and still the first
\* of the content, or nothing: the reader is exhausted and the run is all
\* the rest of the stream.
C10_TakeWhileMaximal ==
    (op.name = "take_while" /\ RetOk) =>
        LET rest == Drop(stream, consumed(pre))
            cs == chars(ret.span)
        IN  /\ StartsWith(rest, ret.span)
            /\ consumed(Self) = consumed(pre) + Len(ret.span)
            /\ \A i \in 1..Len(cs) : predicate(Preds[op.p], cs[i])
            /\ IF ret.ch # None
               THEN /\ ~predicate(Preds[op.p], ret.ch)
                    /\ StartsWith(content(Self), Encode(ret.ch))
                    /\ StartsWith(Drop(rest, Len(ret.span)), Encode(ret.ch))
               ELSE exhausted(Self) /\ ret.span = rest

\* take_while consumed two characters or more, reading on the way, and
\* stopped at a character its predicate rejects
C10_Witness ==
    /\ src = "Reader" /\ op.name = "take_while" /\ RetOk
    /\ Len(chars(ret.span)) >= 2
    /\ ret.ch # None
    /\ ret.reads >= 2

\* the highest count a range admits: whether k is within it (every k is,
\* for a range that has no upper end)
WithinUpper(u, k) ==
    CASE u.shape = "usize" -> k <= u.n
      [] u.shape \in {"range", "to"} -> k + 1 <= u.hi
      [] u.shape \in {"inclusive", "to_inclusive"} -> k <= u.hi
      [] OTHER -> TRUE

\* C11: a successful take_times returns a span of exactly k characters of
\* the stream, all accepted, with range.contains(k), and consumed() has
\* advanced by the bytes of the span; it stopped because range.want_more(k)
\* is false, or the next character (returned, still in the content) is
\* rejected, or the reader is exhausted; and no scan, successful or
\* rejected, counts more characters than the range's upper end.
C11_TakeTimes ==
    (op.name = "take_times" /\ RetOk) =>
        LET p == Preds[op.p]
            u == Ranges[op.u]
            cs == chars(ret.span)
        IN  /\ WithinUpper(u, ret.times)
            /\ ~ret.rej =>
                   /\ Len(cs) = ret.times
                   /\ \A i \in 1..Len(cs) : predicate(p, cs[i])
                   /\ contains(u, ret.times)
                   /\ StartsWith(Drop(stream, consumed(pre)), ret.span)
                   /\ consumed(Self) = consumed(pre) + Len(ret.span)
                   /\ IF ret.ch = None THEN exhausted(Self)
                      ELSE /\ ~want_more(u, ret.times) \/ ~predicate(p, ret.ch)
                           /\ StartsWith(content(Self), Encode(ret.ch))

\* take_times succeeded with 2 characters and stopped at a character its
\* predicate accepts: the range wanted no more
C11_Witness ==
    /\ src = "Reader" /\ op.name = "take_times" /\ RetOk /\ ~ret.rej
    /\ ret.times = 2
    /\ ret.ch # None
    /\ predicate(Preds[op.p], ret.ch)
    /\ ret.reads > 0

\* the lowest count a range admits: whether k reaches it
AboveLower(u, k) ==
    CASE u.shape = "usize" -> k >= u.n
      [] u.shape \in {"from", "range", "inclusive"} -> k >= u.lo
      [] OTHER -> TRUE

\* C12: for every shape and every count n, want_more(n) is true exactly when
\* n + 1 does not exceed the upper end of the range (always, for a range
\* without one), where the upper end is the one contains goes by: contains(n)
\* is n between the two ends.  So want_more(n) is false exactly when
\* contains(n + 1) fails on the high end.
C12_WantMore ==
    op.name = "want_more" =>
        /\ ret.more <=> WithinUpper(op.u, op.n + 1)
        /\ ret.has <=> (AboveLower(op.u, op.n) /\ WithinUpper(op.u, op.n))
        /\ ~ret.more => ~contains(op.u, op.n + 1)
        /\ (ret.more /\ AboveLower(op.u, op.n + 1)) => contains(op.u, op.n + 1)

\* a..b was asked about n = b - 1: the range contains n and wants no more
C12_Witness ==
    /\ op.name = "want_more"
    /\ op.u.shape = "range"
    /\ op.n + 1 = op.u.hi
    /\ ret.has
    /\ ~ret.more

\* the source has reported its end behind an incomplete sequence (the call
\* that met it failed with UnexpectedEof): what was read together with that
\* sequence stays beyond off_valid for good
TruncatedEnd(s) == s.src = "Reader" /\ s.eof /\ s.off_valid < s.off_read

\* the text the reader holds validated from the position `from` of the
\* stream on, once the call has returned
Seen(from) ==
    IF src = "Borrowed" THEN Drop(str, from)
    ELSE Slice(buf, from - tot_consumed, off_valid)

\* C13: a successful until returns the text from the cursor up to the
\* earliest position at which pattern.matches succeeds on the text that
\* follows, with the discriminant pattern.matches gives there, and the
\* cursor is right behind the matched literal; that text is the text of the
\* stream, and pattern.matches gives the same on all the rest of the stream
\* unless the source had ended behind an incomplete sequence.  A rejected
\* until met the end of input: it returns all the content, in which the
\* pattern matches nowhere, and that is all the rest of the stream.
C13_Until ==
    (op.name = "until" /\ RetOk) =>
        LET pat == Pats[op.pat]
            rest == Drop(stream, consumed(pre))
            seen == Seen(consumed(pre))
            k == Len(ret.span)
        IN  /\ ret.hit # ret.rej
            /\ StartsWith(rest, seen)
            /\ ret.hit =>
                   /\ StartsWith(seen, ret.span)
                   /\ \A j \in 0..(k - 1) : pmatches(pat, Drop(seen, j)).idx = 0
                   /\ ret.idx # 0
                   /\ pmatches(pat, Drop(seen, k)).idx = ret.idx
                   /\ ret.disc = Word(pat, ret.idx)
                   /\ consumed(Self) = consumed(pre) + k + Len(ret.disc)
                   /\ ~TruncatedEnd(pre) =>
                          /\ \A j \in 0..(k - 1) : pmatches(pat, Drop(rest, j)).idx = 0
                          /\ pmatches(pat, Drop(rest, k)).idx = ret.idx
            /\ ret.rej =>
                   /\ ret.span = content(Self)
                   /\ \A j \in 0..k : pmatches(pat, Drop(ret.span, j)).idx = 0
                   /\ rdr = <<>>
                   /\ src = "Reader" => eof
                   /\ (src = "Reader" /\ off_valid = off_read) => ret.span = rest
                   /\ src = "Borrowed" => ret.span = rest

\* until skipped a candidate that failed after its first byte, read on the
\* way, and matched further on
C13_Witness ==
    /\ src = "Reader" /\ op.name = "until" /\ RetOk /\ ret.hit
    /\ Len(ret.span) >= 1
    /\ \E j \in 0..(Len(ret.span) - 1) :
           indicate(Pats[op.pat], ret.span[j + 1]) # None
    /\ ret.reads >= 2

\* what C14 says of a successful matches: the candidate returned is the one
\* pattern.matches gives on the text at the cursor (which is the text of the
\* stream there, and all the rest of it counts unless the source had ended
\* behind an incomplete sequence), and the cursor has advanced by its length
MatchesHit ==
    /\ ret.idx # 0
    /\ StartsWith(Drop(stream, consumed(pre)), Seen(consumed(pre)))
    /\ pmatches(Pats[op.pat], Seen(consumed(pre))).idx = ret.idx
    /\ ~TruncatedEnd(pre) =>
           pmatches(Pats[op.pat], Drop(stream, consumed(pre))).idx = ret.idx
    /\ ret.disc = Word(Pats[op.pat], ret.idx)
    /\ consumed(Self) = consumed(pre) + Len(ret.disc)
    /\ content(pre) # <<>> => StartsWith(content(pre), <<ret.disc[1]>>)

\* C14 as stated: matches tests the current position only; on success the
\* cursor advances by the matched candidate's length and its discriminant is
\* returned; on failure nothing is consumed, so that consumed() and content()
\* are what they were before the call.
C14_MatchesFrame ==
    (op.name = "matches" /\ RetOk) =>
        IF ret.hit THEN MatchesHit
        ELSE /\ consumed(Self) = consumed(pre)
             /\ content(Self) = content(pre)

\* C14, amended: on failure consumed() is what it was and the content of
\* before the call is a prefix of the content after it (the pull that
\* matches starts with may have read more text behind it).
C14_MatchesFrameAmended ==
    (op.name = "matches" /\ RetOk) =>
        IF ret.hit THEN MatchesHit
        ELSE /\ consumed(Self) = consumed(pre)
             /\ StartsWith(content(Self), content(pre))
             /\ ret.idx = 0 /\ ret.disc = <<>>

\* matches failed on a content that was not empty, and its pull has made the
\* content longer
C14_Witness ==
    /\ src = "Reader" /\ op.name = "matches" /\ RetOk /\ ~ret.hit
    /\ content(pre) # <<>>
    /\ Len(content(Self)) > Len(content(pre))
    /\ consumed(Self) = consumed(pre)

\* C15: for a pattern of any kind, indicate(b) is none when no candidate
\* starts with b and otherwise the greatest length of the candidates that
\* start with b; matches(text) is none when no candidate is a prefix of text
\* and otherwise the first such candidate in declaration order, with its
\* length, even when a later candidate is a longer prefix; so whenever
\* matches(text) succeeds, indicate of the first byte of text is at least the
\* matched length.
C15_IndicateMatches ==
    op.name = "pattern" =>
        LET p == MorePats[op.pat]
            all == 1..Len(p.items)
            starting == {i \in all : Word(p, i)[1] = op.b}
            prefixes == {i \in all : StartsWith(op.text, Word(p, i))}
        IN  /\ IF starting = {} THEN ret.len = None
               ELSE /\ \A i \in starting : ret.len >= Len(Word(p, i))
                    /\ \E i \in starting : ret.len = Len(Word(p, i))
            /\ IF prefixes = {} THEN ret.m.idx = 0
               ELSE /\ ret.m.idx \in prefixes
                    /\ \A i \in prefixes : ret.m.idx <= i
                    /\ ret.m.len = Len(Word(p, ret.m.idx))
            /\ ret.m.idx # 0 =>
                   /\ indicate(p, op.text[1]) # None
                   /\ indicate(p, op.text[1]) >= ret.m.len

\* the first candidate matched although a later one is a longer prefix of
\* the text, and indicate gave the length of the longer one
C15_Witness ==
    /\ op.name = "pattern"
    /\ ret.m.idx = 1
    /\ op.text # <<>> /\ op.b = op.text[1]
    /\ \E i \in 2..Len(MorePats[op.pat].items) :
           /\ StartsWith(op.text, Word(MorePats[op.pat], i))
           /\ Len(Word(MorePats[op.pat], i)) > ret.m.len
           /\ ret.len = Len(Word(MorePats[op.pat], i))

\* C16: a reader of borrowed text has its EOF flag set from construction; a
\* stream reader's flag is set by the call in which a read returned 0, by no
\* other call, and a call that starts with the flag set ends with it set,
\* whichever call it is.  (The source is one for which 0 is final, as the
\* reader's contract with it says: its reads are of the bytes it has left.)
C16_EofSticky ==
    /\ src = "Borrowed" => eof
    /\ Returned =>
           /\ pre.eof => eof
           /\ ret.zero => eof
           /\ (eof /\ ~pre.eof) => ret.zero

\* a stream reader that had seen the end was made to read again, and the
\* flag stayed
C16_Witness ==
    /\ src = "Reader" /\ Returned
    /\ pre.eof /\ eof
    /\ ret.reads > 0
    /\ ret.zero

\* C17: pull leaves consumed() as it was, and the content of before the
\* call is a prefix of the content after it.  Either nothing is discarded, or
\* the whole consumed prefix is: it is added to tot_consumed, off_consumed
\* becomes 0, off_read is less by it (and more by the bytes read), off_valid
\* is less by it (and more by the bytes validated), and the bytes behind it
\* are the same bytes, moved to the start.  It is discarded when pull is
\* entered with off_read beyond INIT_CAP - THRES_ARRANGE (and not so far
\* beyond off_consumed that pull returns at once).
C17_PullCompaction ==
    op.name = "pull" =>
        LET d == tot_consumed - pre.tot_consumed
        IN  /\ consumed(Self) = consumed(pre)
            /\ StartsWith(content(Self), content(pre))
            /\ d \in {0, pre.off_consumed}
            /\ off_consumed = pre.off_consumed - d
            /\ off_read = pre.off_read - d + (tot_read - pre.tot_read)
            /\ off_valid >= pre.off_valid - d
            /\ Slice(buf, 0, pre.off_read - d) = Slice(pre.buf, d, pre.off_read)
            /\ (pre.off_read > INIT_CAP - THRES_ARRANGE
                  /\ ~(pre.off_read > INIT_CAP + pre.off_consumed)) =>
                   d = pre.off_consumed /\ off_consumed = 0

\* a pull discarded a consumed prefix in front of a content that was not
\* empty, and read more text behind it
C17_Witness ==
    /\ src = "Reader" /\ op.name = "pull" /\ RetOk
    /\ pre.off_consumed > 0
    /\ tot_consumed = pre.tot_consumed + pre.off_consumed
    /\ content(pre) # <<>>
    /\ Len(content(Self)) > Len(content(pre))

\* C18: pull_more and pull_at_least change neither off_consumed nor
\* tot_consumed, and every byte below the off_read of before the call is
\* where it was and what it was, also when the allocation was replaced by a
\* doubled one; a span start..off_consumed taken before the call reads the
\* same text after it.
C18_GrowthPins ==
    op.name \in {"pull_more", "pull_at_least"} =>
        /\ off_consumed = pre.off_consumed
        /\ tot_consumed = pre.tot_consumed
        /\ off_read >= pre.off_read
        /\ Slice(buf, 0, pre.off_read) = Slice(pre.buf, 0, pre.off_read)
        /\ \A start \in 0..pre.off_consumed :
               content_behind(Self, start, off_consumed)
                   = content_behind(pre, start, pre.off_consumed)

\* the growth replaced the allocation by a doubled one behind a consumed
\* prefix, and bytes were read into it
C18_Witness ==
    /\ src = "Reader" /\ op.name \in {"pull_more", "pull_at_least"} /\ RetOk
    /\ pre.off_consumed > 0
    /\ Len(buf) > Len(pre.buf)
    /\ off_read > pre.off_read

\* C19: a pull entered with off_read - off_consumed > INIT_CAP reads nothing
\* and changes no field; any other pull of a reader source returns with
\* off_read <= INIT_CAP and buf_cap = INIT_CAP, and has written nothing at
\* or beyond offset INIT_CAP of the buffer.
C19_PullBounded ==
    (op.name = "pull" /\ src = "Reader") =>
        IF pre.off_read - pre.off_consumed > INIT_CAP
        THEN Self = pre /\ ret.reads = 0
        ELSE /\ off_read <= INIT_CAP
             /\ buf_cap = INIT_CAP
             /\ ~ret.tight
             /\ Len(buf) = Len(pre.buf)
             /\ Slice(buf, INIT_CAP, Len(buf)) = Slice(pre.buf, INIT_CAP, Len(buf))

\* a pull found more than INIT_CAP bytes behind off_consumed and returned
C19_Witness ==
    /\ src = "Reader" /\ op.name = "pull" /\ RetOk
    /\ pre.off_read - pre.off_consumed > INIT_CAP

\* C20: next, peek and take_once read from the source only when the content
\* is empty on entry: called on a content that is not empty, they issue no
\* read and return, and next and peek return the first character of that
\* content.  (The code breaks it: see C20_ReadBehindContent.)
C20_ReadsOnlyWhenEmpty ==
    (op.name \in {"next", "peek", "take_once"} /\ content(pre) # <<>>) =>
        /\ ret.reads = 0
        /\ RetOk
        /\ op.name \in {"next", "peek"} => ret.ch = FirstChar(content(pre))

\* a peek on a content that is not empty went to the source all the same,
\* and returned the failure of that read in place of the character it had
C20_ReadBehindContent ==
    /\ src = "Reader" /\ op.name = "peek"
    /\ content(pre) # <<>>
    /\ ret.reads > 0
    /\ ret.tag = "Io"

\* C21: whenever a call has returned, the bytes read and not yet validated,
\* if there are any, begin with a sequence that is not yet complete: they
\* hold no complete character.  (The code breaks it: see C21_CompletePending.)
C21_PendingIncomplete ==
    (Returned /\ src = "Reader" /\ off_valid < off_read) =>
        /\ ~from_utf8(Pending(Self)).ok
        /\ from_utf8(Pending(Self)).valid_up_to = 0
        /\ from_utf8(Pending(Self)).error_len = None

\* a pull of a well-formed stream returned Ok with complete characters left
\* beyond off_valid: they were read in one chunk with the first byte of a
\* longer character, and validate moved off_valid over none of them
C21_CompletePending ==
    /\ src = "Reader" /\ op.name = "pull" /\ RetOk
    /\ from_utf8(stream).ok
    /\ off_valid < off_read
    /\ from_utf8(Pending(Self)).valid_up_to > 0
    /\ from_utf8(Pending(Self)).error_len = None

\* C22: whatever the calls before it left in the peek state, take_while and
\* take_times begin at the cursor: the text they scanned is the text that
\* follows the cursor, its first character (or, when they scanned nothing,
\* the character they return) is the first character of the content, every
\* character scanned is one the predicate accepts, and what they consumed is
\* the text they return and no more.
C22_ScanFromCursor ==
    (op.name \in {"take_while", "take_times"} /\ RetOk) =>
        LET seen == Seen(consumed(pre))
            scanned == chars(ret.span)
        IN  /\ StartsWith(seen, content(pre))
            /\ StartsWith(seen, ret.span)
            /\ \A i \in 1..Len(scanned) : predicate(Preds[op.p], scanned[i])
            /\ consumed(Self) = consumed(pre) + (IF ret.rej THEN 0 ELSE Len(ret.span))
            /\ content(pre) # <<>> =>
                   FirstChar(content(pre))
                       = (IF scanned = <<>> THEN ret.ch ELSE scanned[1])

\* a take_times that found the peek state left by an earlier scan, with the
\* cursor moved on since, and accepted characters
C22_Witness ==
    /\ op.name = "take_times" /\ RetOk /\ ~ret.rej
    /\ pre.peeked # 0
    /\ ret.span # <<>>
    /\ FirstChar(content(pre)) = chars(ret.span)[1]

\* C23 as stated: the peek state holds at most one character, and it is
\* empty once consume(n) or next() has returned.
C23_PeekCleared ==
    /\ peeked \in 0..4
    /\ (op.name \in {"consume", "next"} /\ RetOk) => peeked = 0

\* C23, amended: the peek state holds at most one character; take_while and
\* take_times are the calls that write it, and they leave in it the length
\* of the character they return, or nothing when they return none; every
\* other call, consume and next among them, leaves it as it found it.
C23_PeekKept ==
    /\ peeked \in 0..4
    /\ (op.name \in {"take_while", "take_times"} /\ RetOk) =>
           peeked = (IF ret.ch = None THEN 0 ELSE len_utf8(ret.ch))
    /\ (Returned /\ op.name \notin {"take_while", "take_times"}) =>
           peeked = pre.peeked

\* consume or next moved the cursor and returned with the peek state a scan
\* before them had left
C23_Witness ==
    /\ op.name \in {"consume", "next"} /\ RetOk
    /\ Committed > 0
    /\ pre.peeked # 0
    /\ peeked = pre.peeked

\* a call taken turn by turn is under way; it has returned
Running == pc # <<>>
Left == pc = <<>> /\ op.name # "idle"

\* C24 as stated: every call made returns, with a result or an error, when
\* the source delivers finitely many bytes and then 0; and when pull_more or
\* pull_at_least returns Ok, the valid window has grown or the end of the
\* source has been reached.
C24_TerminatesGrown ==
    /\ Running ~> Left
    /\ [](Left /\ op.name \in {"pull_more", "pull_at_least"} /\ ret.tag = "Ok"
            => off_valid > pre.off_valid \/ eof)

\* C24, amended: every call made returns; pull_more returns Ok only with the
\* valid window grown or the end reached; pull_at_least(n) returns Ok(true)
\* only with a content of n bytes or more (at once and without a read when
\* the content is that long already), Ok(false) only with the end reached,
\* and once it has read, only with the window grown or the end reached.
C24_Terminates ==
    /\ Running ~> Left
    /\ [](Left /\ op.name = "pull_more" /\ ret.tag = "Ok"
            => off_valid > pre.off_valid \/ eof)
    /\ [](Left /\ op.name = "pull_at_least" /\ ret.tag = "Ok"
            => /\ ret.flag = (Len(content(Self)) >= op.n)
               /\ ~ret.flag => eof
               /\ Len(content(pre)) >= op.n => Self = pre
               /\ tot_read > pre.tot_read => off_valid > pre.off_valid \/ eof)

\* an until that went round its loops, had the source read more than once
\* and left with a match
C24_Witness ==
    /\ Left /\ op.name = "until" /\ ret.tag = "Ok" /\ ret.hit
    /\ src = "Reader"
    /\ tot_read >= pre.tot_read + 3
    /\ off_consumed >= pre.off_consumed + 3

\* C25: when the bytes read hold a sequence that can never be valid UTF-8,
\* the call that pulled them fails with InvalidData, and the index the error
\* carries is the offset in the stream, counted from the first byte the
\* source ever delivered, of the first illegal byte.  (The code breaks the
\* second half: see C25_IndexBehind.)
C25_InvalidIndex ==
    /\ (Returned /\ ret.tag = "InvalidData") =>
           ret.at = from_utf8(stream).valid_up_to
    /\ (Returned /\ src = "Reader" /\ ret.reads > 0 /\ ~ret.zero /\ ret.tag # "Io"
          /\ off_valid < off_read /\ from_utf8(Pending(Self)).error_len # None) =>
           ret.tag = "InvalidData"

\* a call failed with InvalidData and neither the number of bytes read so
\* far, which the message starts with, nor that number plus the length of
\* the illegal sequence, is the offset of the first illegal byte (counted
\* from 0 or from 1): the stream is 'a' C3 'a', the illegal byte C3 is at
\* offset 1, and the message says 3+1
C25_IndexBehind ==
    /\ Returned /\ ret.tag = "InvalidData"
    /\ stream = <<97, 195, 97>>
    /\ tot_read = 3
    /\ ret.at = 4
    /\ from_utf8(stream).valid_up_to = 1
    /\ from_utf8(stream).error_len = 1

\* C26: every read of the source is given a non-empty region inside the
\* allocation: off_read <= buf_cap <= buf.len() in every state, no read of
\* any call found off_read = buf_cap, whatever the order of pull (which sets
\* buf_cap back to INIT_CAP) and pull_more (which doubles it); so a call
\* that sets the EOF flag has found the source drained.
C26_ReadHasRoom ==
    /\ src = "Reader" => off_read <= buf_cap /\ buf_cap <= Len(buf)
    /\ Returned => ~ret.tight
    /\ (Returned /\ ret.zero) => rdr = <<>>
    /\ (eof /\ ~pre.eof /\ op.name # "idle") => ret.zero /\ rdr = <<>>

\* a pull read into a buffer that an earlier pull_more had doubled: buf_cap
\* is back at INIT_CAP while the allocation keeps its doubled length
C26_Witness ==
    /\ src = "Reader" /\ op.name = "pull" /\ RetOk
    /\ pre.buf_cap = 2 * INIT_CAP
    /\ buf_cap = INIT_CAP
    /\ Len(buf) = 2 * INIT_CAP
    /\ ret.reads > 0
    /\ tot_read > pre.tot_read

\* the text the cursor moves in, and the cursor being on one of its
\* character boundaries
Scanned == IF src = "Borrowed" THEN str ELSE Slice(buf, 0, off_valid)
OnBoundary == off_consumed <= Len(Scanned) /\ is_char_boundary(Scanned, off_consumed)
InUntil == \E i \in 1..Len(pc) : pc[i].f = "until"
AtMatch == pc # <<>> /\ Head(pc).f = "until" /\ Head(pc).ph = "match"

\* C27: inside until, every call of pattern.matches is given content that
\* starts on a character boundary, and off_consumed never exceeds off_valid,
\* although a failed candidate moves the cursor by one byte; when until
\* returns, with a match or with the rejection, off_consumed is on a
\* character boundary and the span returned is whole characters: the text
\* from the cursor the call found up to a boundary.
C27_UntilBoundaries ==
    /\ AtMatch => OnBoundary
    /\ InUntil => off_consumed <= Len(Scanned)
    /\ (Left /\ op.name = "until" /\ ret.tag = "Ok") =>
           /\ ret.hit # ret.rej
           /\ OnBoundary
           /\ from_utf8(ret.span).ok
           /\ ret.span = Slice(Scanned, pre.off_consumed, pre.off_consumed + Len(ret.span))
           /\ is_char_boundary(Scanned, pre.off_consumed + Len(ret.span))
           /\ ret.hit => off_consumed = pre.off_consumed + Len(ret.span)
                                          + WordLen(Pats[op.pat], ret.idx)
           /\ ret.rej => off_consumed = pre.off_consumed

\* until looks for U+20AC or U+00E8 and is about to call pattern.matches at
\* the second U+00E9 of the text, having passed the first: that candidate
\* failed after its first byte C3 and the cursor went one byte on, between
\* C3 and A9
C27_Witness ==
    /\ AtMatch /\ op.pat = 3
    /\ src = "Reader"
    /\ off_consumed >= pre.off_consumed + 2
    /\ Slice(buf, off_consumed - 2, off_consumed) = <<195, 169>>
    /\ off_consumed < off_valid /\ buf[off_consumed + 1] = 195

====
